---------------------------- MODULE Spec2Model ----------------------------
(***************************************************************************)
(* Financial-controls anomaly detection: the detectors of src/api/main.py  *)
(* and the /api/analyze endpoint of src/api/index.py that runs them.       *)
(*                                                                         *)
(* Amounts are decimal values on a grid of thousandths, held as integers   *)
(* (1000.001 is 1000001).  Timestamps are whole days since 1970-01-01.     *)
(* Vendor names are sequences of one-character strings.                    *)
(***************************************************************************)
EXTENDS Integers, Sequences, FiniteSets, TLC

VARIABLES
    request,    \* the caller's data: the JSON body (request.json), a sequence
                \* of raw records; for the scripts and the dashboards the CSV file
    thrArg,     \* the "threshold" query parameter (request.args) or slider
    pc,         \* position of the handler analyze(), or of the script
    df,         \* the DataFrame that is built and handed to the detectors
    res,        \* the local variables that hold each detector's return value
    invoked,    \* the detectors that have been called so far
    response,   \* what the handler returned: status code and JSON body
    session     \* st.session_state of the dashboard src/app.py

vars == <<request, thrArg, pc, df, res, invoked, response, session>>

-----------------------------------------------------------------------------
(* Bounds of the model *)

MaxRows == 3

(* Program constants *)

DefaultThreshold == 10000
DefaultCutoff == 90
RoundUnit == 1000
WeekendFrom == 5

\* Thousandths per unit of amount.
Scale == 10 * 10 * 10

Max(a, b) == IF a >= b THEN a ELSE b
Abs(x) == IF x < 0 THEN -x ELSE x

-----------------------------------------------------------------------------
(* Calendar: what pd.to_datetime and Series.dt.weekday compute *)

IsLeap(y) == (y % 4 = 0) /\ ((y % 100 # 0) \/ (y % 400 = 0))

MonthLengths(y) ==
    <<31, IF IsLeap(y) THEN 29 ELSE 28, 31, 30, 31, 30, 31, 31, 30, 31, 30, 31>>

RECURSIVE DaysBeforeMonth(_, _)
DaysBeforeMonth(y, m) ==
    IF m <= 1 THEN 0 ELSE DaysBeforeMonth(y, m - 1) + MonthLengths(y)[m - 1]

\* A "YYYY-MM-DD" text names a date iff month and day exist in that year.
ValidYMD(y, m, d) ==
    /\ m \in 1..12
    /\ d >= 1
    /\ d <= MonthLengths(y)[m]

\* Days from 1970-01-01 to y-m-d, for y >= 1970 (the datetime64 value).
DaysFromCivil(y, m, d) ==
    LET y0 == y - 1970
        y1 == y0 + 1
        y2 == y1 + 68
        y3 == y2 + 300
    IN  y0 * 365 + (y1 \div 4) - (y2 \div 100) + (y3 \div 400)
          + DaysBeforeMonth(y, m) + (d - 1)

\* The year and the day of the year (from 0) of a day count.
YearAndDay(ts) ==
    LET per400 == 400 * 365 + 97
        per100 == 100 * 365 + 24
        per4   == 4 * 365 + 1
        a  == ts - (365 * 30 + 7)
        c4 == a \div per400
        r4 == a % per400
        s1 == IF r4 >= 366
                THEN [y |-> 100 * ((r4 - 1) \div per100), r |-> (r4 - 1) % per100,
                      more |-> TRUE]
                ELSE [y |-> 0, r |-> r4, more |-> FALSE]
        s2 == IF s1.more /\ s1.r >= 365
                THEN [y |-> s1.y + 4 * ((s1.r + 1) \div per4), r |-> (s1.r + 1) % per4,
                      more |-> TRUE]
                ELSE [y |-> s1.y, r |-> s1.r, more |-> FALSE]
        s3 == IF s2.more /\ s2.r >= 366
                THEN [y |-> s2.y + ((s2.r - 1) \div 365), r |-> (s2.r - 1) % 365]
                ELSE [y |-> s2.y, r |-> s2.r]
    IN  [y |-> 2000 + 400 * c4 + s3.y, doy |-> s3.r]

RECURSIVE MonthOfDay(_, _, _)
MonthOfDay(y, doy, m) ==
    IF doy < MonthLengths(y)[m]
        THEN [m |-> m, d |-> doy + 1]
        ELSE MonthOfDay(y, doy - MonthLengths(y)[m], m + 1)

CivilFromDays(ts) ==
    LET yd == YearAndDay(ts)
        md == MonthOfDay(yd.y, yd.doy, 1)
    IN  [y |-> yd.y, m |-> md.m, d |-> md.d]

\* Day of the week of y-m-d, Monday = 0 ... Sunday = 6.
SakamotoTable == <<0, 3, 2, 5, 0, 3, 5, 1, 4, 6, 2, 4>>

DayOfWeek(y, m, d) ==
    LET yy  == IF m < 3 THEN y - 1 ELSE y
        day == (yy + (yy \div 4) - (yy \div 100) + (yy \div 400) + SakamotoTable[m] + d) % 7
    IN  (day + 6) % 7

\* Series.dt.weekday of a timestamp
Weekday(ts) ==
    LET c == CivilFromDays(ts) IN DayOfWeek(c.y, c.m, c.d)

-----------------------------------------------------------------------------
(* Cells of the request and of the DataFrame *)

Cols == {"date", "amount", "vendor"}

\* Raw cells, as the JSON carries them.
DateText(y, m, d) == [kind |-> "ymd", y |-> y, m |-> m, d |-> d]
DateJunk   == [kind |-> "junk", y |-> 0, m |-> 0, d |-> 0]
DateAbsent == [kind |-> "absent", y |-> 0, m |-> 0, d |-> 0]

AmtNum(v)   == [kind |-> "num", v |-> v]       \* a JSON number
AmtText(v)  == [kind |-> "text", v |-> v]      \* a numeric text such as "9500.0"
AmtComma(v) == [kind |-> "comma", v |-> v]     \* a text such as "9,500"
AmtJunk     == [kind |-> "junk", v |-> 0]
AmtAbsent   == [kind |-> "absent", v |-> 0]

VendorStr(s) == [kind |-> "str", s |-> s]
VendorAbsent == [kind |-> "absent", s |-> <<>>]

RawRow(d, a, v) == [date |-> d, amount |-> a, vendor |-> v]

\* Parsed cells of the DataFrame.
NaT == [null |-> TRUE, ts |-> 0]
Timestamp(ts) == [null |-> FALSE, ts |-> ts]
NaN == [null |-> TRUE, v |-> 0]
Number(v) == [null |-> FALSE, v |-> v]
NoVendor == [null |-> TRUE, s |-> <<>>]
Name(s) == [null |-> FALSE, s |-> s]

\* pd.to_datetime(..., errors='coerce') on one cell
ToDatetime(c) ==
    IF c.kind = "ymd" /\ ValidYMD(c.y, c.m, c.d)
        THEN Timestamp(DaysFromCivil(c.y, c.m, c.d))
        ELSE NaT

\* pd.to_numeric(..., errors='coerce') on one cell
ToNumeric(c) ==
    IF c.kind \in {"num", "text"} THEN Number(c.v) ELSE NaN

ToVendor(c) == IF c.kind = "str" THEN Name(c.s) ELSE NoVendor

\* pd.DataFrame(data): the columns are the keys that occur in some record.
Columns(data) ==
    {c \in Cols : \E i \in 1..Len(data) : data[i][c].kind # "absent"}

Frame(data) ==
    [i \in 1..Len(data) |->
        [idx    |-> i,
         date   |-> ToDatetime(data[i].date),
         amount |-> ToNumeric(data[i].amount),
         vendor |-> ToVendor(data[i].vendor)]]

\* df.dropna(subset=['date', 'amount'])
DropNa(rows) ==
    SelectSeq(rows, LAMBDA r : ~r.date.null /\ ~r.amount.null)

\* A cell that is still the text it was read as (a column of dtype object).
IsText(c) == "kind" \in DOMAIN c

\* pd.to_datetime(...) with the default errors='raise' on one cell: a text
\* that names no date raises, a missing value stays missing, a timestamp is
\* kept.
CanParseDate(c) == IsText(c) => (c.kind = "ymd" /\ ValidYMD(c.y, c.m, c.d))

ToDatetimeStrict(c) == IF IsText(c) THEN ToDatetime(c) ELSE c

-----------------------------------------------------------------------------
(* The detectors of src/api/main.py.  A DataFrame is [cols, rows]; a       *)
(* detector that indexes a column the frame does not have raises KeyError. *)

Raised(what) == [ok |-> FALSE, error |-> what, rows |-> <<>>]
Returned(rows) == [ok |-> TRUE, error |-> "", rows |-> rows]

Key(r) == <<r.date, r.amount, r.vendor>>

\* DataFrame.duplicated(subset=[date, amount, vendor], keep=...): the mask.
Duplicated(rows, keep) ==
    [i \in 1..Len(rows) |->
        \/ keep # "last"  /\ \E j \in 1..(i - 1) : Key(rows[j]) = Key(rows[i])
        \/ keep # "first" /\ \E j \in (i + 1)..Len(rows) : Key(rows[j]) = Key(rows[i])]

\* df[mask]: the rows whose mask is set, in the frame's order.
RECURSIVE Masked(_, _, _)
Masked(rows, mask, i) ==
    IF i > Len(rows) THEN <<>>
    ELSE (IF mask[i] THEN <<rows[i]>> ELSE <<>>) \o Masked(rows, mask, i + 1)

detect_duplicate_payments_first(frame) ==
    IF ~({"date", "amount", "vendor"} \subseteq frame.cols)
        THEN Raised("KeyError")
        ELSE Returned(Masked(frame.rows, Duplicated(frame.rows, "first"), 1))

detect_duplicate_payments(frame) ==
    IF ~({"date", "amount", "vendor"} \subseteq frame.cols)
        THEN Raised("KeyError")
        ELSE Returned(Masked(frame.rows, Duplicated(frame.rows, "none"), 1))

detect_unusual_timing_sunday(frame) ==
    IF "date" \notin frame.cols
        THEN Raised("KeyError")
        ELSE Returned(SelectSeq(frame.rows, LAMBDA r : Weekday(r.date.ts) > WeekendFrom))

\* df['date'] = pd.to_datetime(df['date']): the column is replaced in the
\* caller's frame
AssignDates(frame) ==
    [frame EXCEPT !.rows =
        [i \in 1..Len(frame.rows) |->
            [frame.rows[i] EXCEPT !.date = ToDatetimeStrict(frame.rows[i].date)]]]

\* a column of dtype object: some cell is a text
ObjectColumn(frame, col) ==
    \E i \in 1..Len(frame.rows) : IsText(frame.rows[i][col])

\* NaT has no weekday: NaN >= 5 is False
detect_unusual_timing(frame) ==
    IF "date" \notin frame.cols
        THEN Raised("KeyError")
    ELSE IF \E i \in 1..Len(frame.rows) : ~CanParseDate(frame.rows[i].date)
        THEN Raised("ValueError")
    ELSE Returned(SelectSeq(AssignDates(frame).rows,
            LAMBDA r : ~r.date.null /\ Weekday(r.date.ts) >= WeekendFrom))

detect_round_number_abuse_abs(frame) ==
    IF "amount" \notin frame.cols
        THEN Raised("KeyError")
        ELSE Returned(SelectSeq(frame.rows,
                LAMBDA r : r.amount.v > 0 /\ r.amount.v % (RoundUnit * Scale) = 0))

\* Series % 1000 is the floored remainder, which is exact on doubles: it is
\* zero iff the amount is a multiple of 1000.  NaN % 1000 is NaN, which is not
\* 0; a text % 1000 raises TypeError.
detect_round_number_abuse(frame) ==
    IF "amount" \notin frame.cols
        THEN Raised("KeyError")
    ELSE IF ObjectColumn(frame, "amount")
        THEN Raised("TypeError")
    ELSE Returned(SelectSeq(frame.rows,
            LAMBDA r : ~r.amount.null /\ r.amount.v % (RoundUnit * Scale) = 0))

-----------------------------------------------------------------------------
(* threshold * 0.9 in IEEE-754 double arithmetic.                          *)
(*                                                                         *)
(* The double 0.9 is 0.9 + 1/(5 * 2^53).  For an integer threshold t with  *)
(* 2^k <= 9t/10 < 2^(k+1) the doubles near 9t/10 are the multiples of      *)
(* u = 2^(k-52).  9t/10 lies r/10 of a u above a multiple of u, where      *)
(* r = (9t * 2^(52-k)) mod 10, and the exact product t * 0.9 lies          *)
(* (t/2^k)/10 of a u above 9t/10.  Each is rounded to the nearest multiple.*)

RECURSIVE Pow2(_)
Pow2(n) == IF n <= 0 THEN 1 ELSE 2 * Pow2(n - 1)

RECURSIVE Pow2Mod10(_)
Pow2Mod10(n) == IF n <= 0 THEN 1 ELSE (2 * Pow2Mod10(n - 1)) % 10

\* k + 1 for the k with 2^k <= 9t/10 < 2^(k+1), t >= 1
RECURSIVE BinadeTop(_, _)
BinadeTop(t, e) == IF 9 * t < 10 * Pow2(e) THEN e ELSE BinadeTop(t, e + 1)

TenthsAboveGrid(t) ==
    (((9 * t) % 10) * Pow2Mod10(53 - BinadeTop(t, 0))) % 10

\* The double nearest the decimal 9t/10, in u above the grid point below it.
DecimalUlp(t) == IF TenthsAboveGrid(t) > 5 THEN 1 ELSE 0

\* The double t * 0.9, in u above the same grid point.
ProductUlp(t) ==
    LET top == Pow2(BinadeTop(t, 0))
    IN  IF TenthsAboveGrid(t) * top + 2 * t > 5 * top THEN 1 ELSE 0

\* df['amount'] >= threshold * 0.9 for the amount am (thousandths) and the
\* integer threshold t.  Decimals a thousandth or more apart keep their order
\* as doubles; at equality the two roundings decide.
GeNinetyPercent(am, t) ==
    LET x == 9 * t * (Scale \div 10)
    IN  IF am # x THEN am > x
        ELSE IF t = 0 THEN TRUE
        ELSE IF t > 0 THEN DecimalUlp(t) >= ProductUlp(t)
        ELSE DecimalUlp(-t) <= ProductUlp(-t)

\* df['amount'] < threshold: an integer threshold is a double as it stands.
LtThreshold(am, t) == am < t * Scale

\* a comparison with NaN is False; a text compared with a float raises
detect_threshold_avoidance(frame, threshold) ==
    IF "amount" \notin frame.cols
        THEN Raised("KeyError")
    ELSE IF ObjectColumn(frame, "amount")
        THEN Raised("TypeError")
    ELSE Returned(SelectSeq(frame.rows,
            LAMBDA r : /\ ~r.amount.null
                       /\ GeNinetyPercent(r.amount.v, threshold)
                       /\ LtThreshold(r.amount.v, threshold)))

-----------------------------------------------------------------------------
(* analyze_benford *)

\* str(n) of a non-negative integer: its decimal digits, most significant first
RECURSIVE DecimalDigits(_)
DecimalDigits(n) ==
    IF n < 10 THEN <<n>> ELSE DecimalDigits(n \div 10) \o <<n % 10>>

LeadingDigitLast(am) ==
    LET s == DecimalDigits(Abs(am) \div Scale) IN s[Len(s)]

\* int(str(abs(x))[0]) for abs(x) >= 1: the text of abs(x) starts with the
\* digits of its integer part
LeadingDigit(am) == Head(DecimalDigits(Abs(am) \div Scale))

\* amounts.apply(lambda x: ... if abs(x) >= 1 else None).dropna()
LeadingDigits(rows) ==
    LET kept == SelectSeq(rows, LAMBDA r : ~r.amount.null /\ Abs(r.amount.v) >= Scale)
    IN  [i \in 1..Len(kept) |-> LeadingDigit(kept[i].amount.v)]

\* 10^4 * log10(1 + 1/d), rounded, for d = 1..9
BenfordRef == <<3010, 1761, 1249, 969, 792, 669, 580, 512, 458>>

Occurrences(digits, d) == Cardinality({i \in 1..Len(digits) : digits[i] = d})

\* value_counts(normalize=True), joined with the reference on the union of
\* the two indexes, absent cells filled with 0; sorted by digit.  A frequency
\* is the fraction num/den.
BenfordTableObserved(digits) ==
    LET index == {digits[i] : i \in 1..Len(digits)}
    IN  SelectSeq([k \in 1..10 |->
                     [Digit    |-> k - 1,
                      Actual   |-> [num |-> Occurrences(digits, k - 1), den |-> Len(digits)],
                      Expected |-> IF k - 1 \in 1..9 THEN BenfordRef[k - 1] ELSE 0]],
                  LAMBDA row : row.Digit \in index)

BenfordTable(digits) ==
    LET index == {digits[i] : i \in 1..Len(digits)} \cup (1..9)
    IN  SelectSeq([k \in 1..10 |->
                     [Digit    |-> k - 1,
                      Actual   |-> IF Occurrences(digits, k - 1) > 0
                                     THEN [num |-> Occurrences(digits, k - 1),
                                           den |-> Len(digits)]
                                     ELSE [num |-> 0, den |-> 1],
                      Expected |-> IF k - 1 \in 1..9 THEN BenfordRef[k - 1] ELSE 0]],
                  LAMBDA row : row.Digit \in index)

\* abs() of a text raises TypeError
analyze_benford(frame) ==
    IF "amount" \notin frame.cols
        THEN Raised("KeyError")
    ELSE IF ObjectColumn(frame, "amount")
        THEN Raised("TypeError")
    ELSE LET digits == LeadingDigits(frame.rows)
         IN  IF digits = <<>> THEN Returned(<<>>)
             ELSE Returned(BenfordTable(digits))

-----------------------------------------------------------------------------
(* detect_fuzzy_duplicates *)

\* One row of the longest-common-subsequence table: prev is the row above,
\* c the character of this row, b the other text.
RECURSIVE LcsRow(_, _, _, _, _)
LcsRow(prev, c, b, j, acc) ==
    IF j > Len(b) THEN acc
    ELSE LET left == IF j = 1 THEN 0 ELSE acc[j - 1]
             diag == IF j = 1 THEN 0 ELSE prev[j - 1]
             cell == IF c = b[j] THEN diag + 1 ELSE Max(prev[j], left)
         IN  IF cell >= 0 THEN LcsRow(prev, c, b, j + 1, Append(acc, cell)) ELSE acc

RECURSIVE LcsTable(_, _, _, _)
LcsTable(a, b, i, prev) ==
    IF i > Len(a) THEN prev
    ELSE LET row == LcsRow(prev, a[i], b, 1, <<>>)
         IN  IF Len(row) = Len(b) THEN LcsTable(a, b, i + 1, row) ELSE row

Lcs(a, b) ==
    IF b = <<>> THEN 0
    ELSE LcsTable(a, b, 1, [j \in 1..Len(b) |-> 0])[Len(b)]

\* round(): to the nearest integer, a half to the even one; num/den >= 0
RoundHalfEven(num, den) ==
    LET q == num \div den
        r == num % den
    IN  IF 2 * r > den \/ (2 * r = den /\ q % 2 = 1) THEN q + 1 ELSE q

\* fuzz.ratio(a, b): 100 * 2 * LCS / (len(a) + len(b)), rounded to an integer
Ratio(a, b) ==
    IF Len(a) + Len(b) = 0 THEN 100
    ELSE RoundHalfEven(200 * Lcs(a, b), Len(a) + Len(b))

\* str(v) of a vendor cell
StrOf(v) == IF v.null THEN <<"n", "a", "n">> ELSE v.s

\* Series.unique(): the distinct values in order of first appearance
RECURSIVE UniqueFrom(_, _, _)
UniqueFrom(rows, i, seen) ==
    IF i > Len(rows) THEN seen
    ELSE IF \E k \in 1..Len(seen) : seen[k] = rows[i].vendor
        THEN UniqueFrom(rows, i + 1, seen)
        ELSE UniqueFrom(rows, i + 1, Append(seen, rows[i].vendor))

Unique(rows) == UniqueFrom(rows, 1, <<>>)

\* the inner loop: for v2 in vendors[i+1:]
RECURSIVE InnerLoop(_, _, _, _)
InnerLoop(vendors, i, j, threshold) ==
    IF j > Len(vendors) THEN <<>>
    ELSE LET score == Ratio(StrOf(vendors[i]), StrOf(vendors[j]))
             hit   == IF score >= threshold
                        THEN <<[v1 |-> vendors[i], v2 |-> vendors[j], score |-> score]>>
                        ELSE <<>>
         IN  hit \o InnerLoop(vendors, i, j + 1, threshold)

InnerStartSelf(i) == i

InnerStart(i) == i + 1

\* the outer loop: for i, v1 in enumerate(vendors)
RECURSIVE OuterLoop(_, _, _)
OuterLoop(vendors, i, threshold) ==
    IF i > Len(vendors) THEN <<>>
    ELSE InnerLoop(vendors, i, InnerStart(i), threshold)
           \o OuterLoop(vendors, i + 1, threshold)

detect_fuzzy_duplicates(frame, threshold) ==
    IF "vendor" \notin frame.cols
        THEN Raised("KeyError")
        ELSE Returned(OuterLoop(Unique(frame.rows), 1, threshold))

-----------------------------------------------------------------------------
(* The requests the model sends *)

VendorA    == <<"V", "e", "n", "d", "o", "r", " ", "A">>
VendorB    == <<"V", "e", "n", "d", "o", "r", " ", "B">>
VendorC    == <<"X", "Y", "Z", " ", "I", "n", "c">>
AbcCorp    == <<"A", "B", "C", " ", "C", "o", "r", "p">>
AbcCorpDot == <<"A", "B", "C", " ", "C", "o", "r", "p", ".">>
AbcCorpCo  == <<"A", "B", "C", " ", "C", "o", "r", "p", ".", "C", "o">>
AbcLower   == <<"a", "b", "c", " ", "c", "o", "r", "p">>

BaseDate   == DateText(2025, 12, 1)
BaseAmount == AmtNum(1000 * Scale)
BaseVendor == VendorStr(VendorA)

\* a week that crosses a month and a year boundary, a leap day and the
\* Saturday after it, and a day that does not exist
RawDates ==
    {DateText(2025, 12, d) : d \in 29..31}
      \cup {DateText(2026, 1, d) : d \in 1..4}
      \cup {DateText(2024, 2, 29), DateText(2024, 3, 2), DateText(2025, 2, 30)}

\* the values the round-number, threshold and Benford boundaries ask for
RawAmounts ==
    {AmtNum(v) : v \in {-2000 * Scale, 0, 500, 999999, 1000 * Scale, 1000001,
                        8999999, 9000 * Scale, 9999999, 10000 * Scale, 11700}}

RawVendors ==
    {VendorStr(s) : s \in {VendorA, AbcCorp, AbcCorpDot, AbcCorpCo, AbcLower}}
      \cup {VendorAbsent}

DateFamily   == {RawRow(d, BaseAmount, BaseVendor) : d \in RawDates}
AmountFamily == {RawRow(BaseDate, a, BaseVendor) : a \in RawAmounts}
VendorFamily == {RawRow(BaseDate, BaseAmount, v) : v \in RawVendors}

\* the dataset of the tests and rows that differ from its first row in one field
MixedFamily ==
    {RawRow(DateText(2025, 12, 1), AmtNum(1000 * Scale), VendorStr(VendorA)),
     RawRow(DateText(2025, 12, 6), AmtNum(9500 * Scale), VendorStr(VendorB)),
     RawRow(DateText(2025, 12, 7), AmtNum(10000 * Scale), VendorStr(VendorA)),
     RawRow(DateText(2025, 12, 2), AmtNum(5000 * Scale), VendorStr(VendorC)),
     RawRow(DateText(2025, 12, 6), AmtNum(1000 * Scale), VendorStr(VendorA)),
     RawRow(DateText(2025, 12, 1), AmtText(1000 * Scale), VendorStr(VendorA)),
     RawRow(DateText(2025, 12, 1), AmtNum(1000 * Scale), VendorStr(VendorB))}

\* records with a field missing or unparseable
ShapeFamily ==
    {RawRow(BaseDate, BaseAmount, BaseVendor),
     RawRow(BaseDate, BaseAmount, VendorAbsent),
     RawRow(DateAbsent, BaseAmount, BaseVendor),
     RawRow(BaseDate, AmtAbsent, BaseVendor),
     RawRow(DateJunk, BaseAmount, BaseVendor),
     RawRow(BaseDate, AmtJunk, BaseVendor),
     RawRow(BaseDate, AmtComma(9500 * Scale), VendorAbsent)}

Families == {DateFamily, AmountFamily, VendorFamily, MixedFamily, ShapeFamily}

SeqsUpTo(S, n) == UNION {[1..k -> S] : k \in 0..n}

Requests == UNION {SeqsUpTo(F, MaxRows) : F \in Families}

NoArg == [given |-> FALSE, t |-> 0]
Arg(t) == [given |-> TRUE, t |-> t]
ThresholdArgs == {NoArg, Arg(13)}

-----------------------------------------------------------------------------
(* The handler analyze() of src/api/index.py *)

Detectors ==
    {"duplicates", "unusual_timing", "round_numbers", "threshold_flags",
     "benford", "fuzzy_duplicates"}

\* the order of the calls in the handler: where it stands after each one
Following ==
    [duplicates       |-> "unusual_timing",
     unusual_timing   |-> "round_numbers",
     round_numbers    |-> "threshold_flags",
     threshold_flags  |-> "benford",
     benford          |-> "fuzzy_duplicates",
     fuzzy_duplicates |-> "respond"]

NotRun == [ok |-> FALSE, error |-> "not run", rows |-> <<>>]
NoFrame == [cols |-> {}, rows |-> <<>>]
NoResponse == [status |-> 0, error |-> "", summary |-> <<>>, details |-> <<>>]

\* the endpoint keeps no session
NoSession == [analysis_triggered |-> FALSE, use_sample_data |-> FALSE]

\* jsonify({"error": ...}), status
ErrorResponse(status, what) ==
    [status |-> status, error |-> what, summary |-> <<>>, details |-> <<>>]

Init ==
    /\ request \in Requests
    /\ thrArg \in ThresholdArgs
    /\ pc = "receive"
    /\ df = NoFrame
    /\ res = [d \in Detectors |-> NotRun]
    /\ invoked = {}
    /\ response = NoResponse
    /\ session = NoSession

\* except Exception as e: return jsonify({"error": str(e)}), 500
Except(what) ==
    /\ response' = ErrorResponse(500, what)
    /\ pc' = "done"

\* data = request.json; if not data: 400
Receive ==
    /\ pc = "receive"
    /\ IF request = <<>>
         THEN /\ response' = ErrorResponse(400, "No data provided")
              /\ pc' = "done"
         ELSE /\ pc' = "clean"
              /\ UNCHANGED response
    /\ UNCHANGED <<session, request, thrArg, df, res, invoked>>

\* df = pd.DataFrame(data); the two conversions; df.dropna(subset=...)
CleanFrame(data) == [cols |-> Columns(data), rows |-> DropNa(Frame(data))]

Clean ==
    /\ pc = "clean"
    /\ IF {"date", "amount"} \subseteq Columns(request)
         THEN /\ df' = CleanFrame(request)
              /\ pc' = "validate"
              /\ UNCHANGED response
         ELSE /\ Except("KeyError")
              /\ UNCHANGED df
    /\ UNCHANGED <<session, request, thrArg, res, invoked>>

\* if df.empty: 400
Validate ==
    /\ pc = "validate"
    /\ IF df.rows = <<>>
         THEN /\ response' = ErrorResponse(400, "No valid data after parsing")
              /\ pc' = "done"
         ELSE /\ pc' = "duplicates"
              /\ UNCHANGED response
    /\ UNCHANGED <<session, request, thrArg, df, res, invoked>>

\* One detector call of the handler: the result is kept and the handler moves
\* on, or the exception leaves the handler through its except clause.
Call(name, result, next) ==
    /\ invoked' = invoked \cup {name}
    /\ IF result.ok
         THEN /\ res' = [res EXCEPT ![name] = result]
              /\ pc' = next
              /\ UNCHANGED response
         ELSE /\ Except(result.error)
              /\ UNCHANGED res

RunDuplicates ==
    /\ pc = "duplicates"
    /\ Call("duplicates", detect_duplicate_payments(df), Following["duplicates"])
    /\ UNCHANGED <<session, request, thrArg, df>>

\* df['date'] = pd.to_datetime(df['date']) inside detect_unusual_timing writes
\* to the handler's frame
RunTiming ==
    /\ pc = "unusual_timing"
    /\ Call("unusual_timing", detect_unusual_timing(df), Following["unusual_timing"])
    /\ df' = AssignDates(df)
    /\ UNCHANGED <<session, request, thrArg>>

RunRoundNumbers ==
    /\ pc = "round_numbers"
    /\ Call("round_numbers", detect_round_number_abuse(df), Following["round_numbers"])
    /\ UNCHANGED <<session, request, thrArg, df>>

\* request.args.get('threshold', default=10000, type=float)
Threshold == IF thrArg.given THEN thrArg.t ELSE DefaultThreshold

RunThreshold ==
    /\ pc = "threshold_flags"
    /\ Call("threshold_flags", detect_threshold_avoidance(df, Threshold), Following["threshold_flags"])
    /\ UNCHANGED <<session, request, thrArg, df>>

\* benford_analysis['Digit'] = benford_analysis.index; to_dict(orient='records')
RunBenford ==
    /\ pc = "benford"
    /\ Call("benford", analyze_benford(df), Following["benford"])
    /\ UNCHANGED <<session, request, thrArg, df>>

RunFuzzy ==
    /\ pc = "fuzzy_duplicates"
    /\ Call("fuzzy_duplicates", detect_fuzzy_duplicates(df, DefaultCutoff), Following["fuzzy_duplicates"])
    /\ UNCHANGED <<session, request, thrArg, df>>

SummaryShifted ==
    [k \in {"total_transactions", "duplicates", "unusual_timing", "round_numbers",
            "threshold_flags"} |->
        IF k = "total_transactions" THEN Len(df.rows)
        ELSE IF k = "threshold_flags" THEN Len(res["round_numbers"].rows)
        ELSE Len(res[k].rows)]

\* "summary": total_transactions and the four counts
Summary ==
    [k \in {"total_transactions", "duplicates", "unusual_timing", "round_numbers",
            "threshold_flags"} |->
        IF k = "total_transactions" THEN Len(df.rows) ELSE Len(res[k].rows)]

\* "details": the six tables
Details == [k \in Detectors |-> res[k].rows]

Respond ==
    /\ pc = "respond"
    /\ response' = [status |-> 200, error |-> "", summary |-> Summary, details |-> Details]
    /\ pc' = "done"
    /\ UNCHANGED <<session, request, thrArg, df, res, invoked>>

Next ==
    \/ Receive
    \/ Clean
    \/ Validate
    \/ RunDuplicates
    \/ RunTiming
    \/ RunRoundNumbers
    \/ RunThreshold
    \/ RunBenford
    \/ RunFuzzy
    \/ Respond

Spec == Init /\ [][Next]_vars

-----------------------------------------------------------------------------
(* Properties *)

\* the handler stands right after the call of a detector, which returned
Ran(name) == pc = Following[name] /\ res[name].ok

RowsOf(frame) == {frame.rows[i] : i \in 1..Len(frame.rows)}

Members(seq) == {seq[i] : i \in 1..Len(seq)}

\* a result keeps the order of the frame: its index labels increase
InFrameOrder(rows) ==
    \A k \in 1..Len(rows), l \in 1..Len(rows) : k < l => rows[k].idx < rows[l].idx

KeyMembers(frame, r) ==
    Cardinality({x \in RowsOf(frame) :
        x.date = r.date /\ x.amount = r.amount /\ x.vendor = r.vendor})

\* C1: detect_duplicate_payments returns exactly the rows whose (date, amount,
\* vendor) triple has two or more members in the dataset - every returned row
\* has such a key, every row with such a key is returned, the first occurrence
\* included - and the returned rows are in the dataset's order.
C1_DuplicateClasses ==
    Ran("duplicates") =>
        /\ Members(res["duplicates"].rows)
             = {r \in RowsOf(df) : KeyMembers(df, r) >= 2}
        /\ Len(res["duplicates"].rows)
             = Cardinality({r \in RowsOf(df) : KeyMembers(df, r) >= 2})
        /\ InFrameOrder(res["duplicates"].rows)

\* three rows, the first and the last a duplicate pair around a different row
C1_Witness ==
    /\ Ran("duplicates")
    /\ Len(df.rows) = 3
    /\ Len(res["duplicates"].rows) = 2
    /\ res["duplicates"].rows[1] = df.rows[1]
    /\ res["duplicates"].rows[2] = df.rows[3]
    /\ df.rows[2].vendor # df.rows[1].vendor

\* C2: with threshold t, detect_threshold_avoidance returns a row iff its
\* amount a satisfies 0.9 * t <= a < t, a = 0.9 * t included, a = t excluded.
C2_HalfOpenInterval ==
    Ran("threshold_flags") =>
        Members(res["threshold_flags"].rows)
          = {r \in RowsOf(df) : /\ 10 * r.amount.v >= 9 * Threshold * Scale
                                /\ r.amount.v < Threshold * Scale}

\* Zeller's congruence on the text of a date: 0 is Saturday, 1 is Sunday.
Zeller(c) ==
    LET m == IF c.m < 3 THEN c.m + 12 ELSE c.m
        y == IF c.m < 3 THEN c.y - 1 ELSE c.y
        K == y % 100
        J == y \div 100
    IN  (c.d + ((13 * (m + 1)) \div 5) + K + (K \div 4) + (J \div 4) + 5 * J) % 7

\* C3: detect_unusual_timing returns a row iff its calendar date is a Saturday
\* or a Sunday, on every day of a week and across month and year boundaries.
C3_WeekendOnly ==
    Ran("unusual_timing") =>
        /\ Members(res["unusual_timing"].rows)
             = {r \in RowsOf(df) : Zeller(request[r.idx].date) \in {0, 1}}
        /\ \A r \in RowsOf(df) : Zeller(request[r.idx].date) = (r.date.ts + 5) % 7

\* a Saturday of the new year and the Saturday after a leap day are returned,
\* the Wednesday that ends the old year is not
C3_Witness ==
    /\ Ran("unusual_timing")
    /\ Len(df.rows) = 3
    /\ {request[r.idx].date : r \in RowsOf(df)}
         = {DateText(2025, 12, 31), DateText(2026, 1, 3), DateText(2024, 3, 2)}
    /\ {request[r.idx].date : r \in Members(res["unusual_timing"].rows)}
         = {DateText(2026, 1, 3), DateText(2024, 3, 2)}

\* C4: detect_round_number_abuse returns a row iff its amount is an exact
\* integer multiple of 1000, sign kept: 0 and -2000 are returned, an amount
\* off a multiple by a thousandth is not.
C4_ExactMultiples ==
    Ran("round_numbers") =>
        Members(res["round_numbers"].rows)
          = {r \in RowsOf(df) : \E k \in -10..10 : r.amount.v = k * RoundUnit * Scale}

C4_Witness ==
    /\ Ran("round_numbers")
    /\ {r.amount.v : r \in RowsOf(df)} = {-2000 * Scale, 0, 1000001}
    /\ {r.amount.v : r \in Members(res["round_numbers"].rows)} = {-2000 * Scale, 0}

\* the transactions the Benford analysis retains: abs(amount) >= 1
Retained(frame) == {r \in RowsOf(frame) : r.amount.v >= Scale \/ r.amount.v =< -Scale}

RECURSIVE Pow10(_)
Pow10(n) == IF n <= 0 THEN 1 ELSE 10 * Pow10(n - 1)

\* d is the most significant decimal digit of abs(v) >= 1
MostSignificant(v, d) ==
    \E e \in 0..5 :
        /\ d * Pow10(e) * Scale <= Abs(v)
        /\ Abs(v) < (d + 1) * Pow10(e) * Scale

\* C5: analyze_benford returns an empty result or exactly 9 rows, one for each
\* digit 1 to 9; it is empty iff no transaction has abs(amount) >= 1, and a
\* digit that does not occur still has its row, with actual frequency 0.
C5_NineRowsOrEmpty ==
    Ran("benford") =>
        LET table == res["benford"].rows
        IN  /\ (table = <<>>) <=> (Retained(df) = {})
            /\ table # <<>> =>
                 /\ Len(table) = 9
                 /\ \A d \in 1..9 : table[d].Digit = d
                 /\ \A d \in 1..9 :
                      (\A r \in Retained(df) : ~MostSignificant(r.amount.v, d))
                        => table[d].Actual.num = 0

\* a sub-unit amount beside one retained amount: nine rows, eight of them zero
C5_Witness ==
    /\ Ran("benford")
    /\ {r.amount.v : r \in RowsOf(df)} = {500, 9000 * Scale}
    /\ Len(res["benford"].rows) = 9
    /\ Cardinality({d \in 1..9 : res["benford"].rows[d].Actual.num = 0}) = 8

\* C6: with N >= 1 transactions of abs(amount) >= 1, the actual frequency of
\* digit d is c_d / N, c_d the number of those transactions whose abs(amount)
\* has d as most significant digit; sub-unit amounts count nowhere, so the
\* nine frequencies sum to 1.
C6_RelativeFrequencies ==
    (Ran("benford") /\ Retained(df) # {}) =>
        LET table == res["benford"].rows
            N == Cardinality(Retained(df))
            c(d) == Cardinality({r \in Retained(df) : MostSignificant(r.amount.v, d)})
            scaled(d) == (table[d].Actual.num * N) \div table[d].Actual.den
        IN  /\ \A d \in 1..9 : table[d].Actual.num * N = c(d) * table[d].Actual.den
            /\ scaled(1) + scaled(2) + scaled(3) + scaled(4) + scaled(5)
                 + scaled(6) + scaled(7) + scaled(8) + scaled(9) = N

\* 0.5, -2000 and 9000: two retained, digits 2 and 9 at one half each
C6_Witness ==
    /\ Ran("benford")
    /\ {r.amount.v : r \in RowsOf(df)} = {500, -2000 * Scale, 9000 * Scale}
    /\ res["benford"].rows[2].Actual = [num |-> 1, den |-> 2]
    /\ res["benford"].rows[9].Actual = [num |-> 1, den |-> 2]

\* the distinct vendor values of a frame and where each is first seen
VendorsOf(frame) == {r.vendor : r \in RowsOf(frame)}
FirstSeen(frame, v) ==
    CHOOSE i \in 1..Len(frame.rows) :
        /\ frame.rows[i].vendor = v
        /\ \A j \in 1..(i - 1) : frame.rows[j].vendor # v

Cutoffs == {0, 91, 101}

\* the pairs a cutoff asks for: two distinct vendors, the one seen first in
\* front, with a score at or above the cutoff
ExpectedPairs(frame, cutoff) ==
    {<<a, b>> \in VendorsOf(frame) \X VendorsOf(frame) :
        /\ a # b
        /\ FirstSeen(frame, a) < FirstSeen(frame, b)
        /\ Ratio(StrOf(a), StrOf(b)) >= cutoff}

ExactlyThePairs(pairs, frame, cutoff) ==
    LET expected == ExpectedPairs(frame, cutoff)
    IN  /\ {<<pairs[k].v1, pairs[k].v2>> : k \in 1..Len(pairs)} = expected
        /\ Len(pairs) = Cardinality(expected)
        /\ \A k \in 1..Len(pairs) :
             /\ pairs[k].v1 # pairs[k].v2
             /\ StrOf(pairs[k].v1) # StrOf(pairs[k].v2)
             /\ pairs[k].score >= cutoff
             /\ \A l \in 1..Len(pairs) :
                  ~(pairs[l].v1 = pairs[k].v2 /\ pairs[l].v2 = pairs[k].v1)

\* C7: detect_fuzzy_duplicates emits exactly one pair for each unordered pair
\* of distinct vendor names that scores at or above the cutoff (90 by default)
\* and none for any other pair: no pair twice or in both orders, none with the
\* same name on both sides, and the vendor seen first is the first of its pair.
C7_OnePairPerMatch ==
    Ran("fuzzy_duplicates") =>
        /\ ExactlyThePairs(res["fuzzy_duplicates"].rows, df, DefaultCutoff)
        /\ \A c \in Cutoffs :
             ExactlyThePairs(detect_fuzzy_duplicates(df, c).rows, df, c)

\* three names: 94 and exactly 90 are emitted, 84 is not
C7_Witness ==
    /\ Ran("fuzzy_duplicates")
    /\ Len(df.rows) = 3
    /\ df.rows[1].vendor = Name(AbcCorpCo)
    /\ df.rows[2].vendor = Name(AbcCorp)
    /\ df.rows[3].vendor = Name(AbcCorpDot)
    /\ res["fuzzy_duplicates"].rows
         = <<[v1 |-> Name(AbcCorpCo), v2 |-> Name(AbcCorpDot), score |-> 90],
             [v1 |-> Name(AbcCorp), v2 |-> Name(AbcCorpDot), score |-> 94]>>

Counted == {"duplicates", "unusual_timing", "round_numbers", "threshold_flags"}

\* C8 as stated: a successful response has a summary entry for each of the six
\* detectors, equal to the number of rows of that detector's table in details.
C8_SummaryOfAllSix ==
    response.status = 200 =>
        \A d \in Detectors :
            /\ d \in DOMAIN response.summary
            /\ response.summary[d] = Len(response.details[d])

\* C8, amended: a successful response has a details table for each of the six
\* detectors, and its summary holds total_transactions (the rows analysed) and
\* one entry for each of duplicates, unusual_timing, round_numbers and
\* threshold_flags, equal to the number of rows of that table in details; the
\* Benford table and the fuzzy vendor matches are not counted in the summary.
C8_SummaryOfFour ==
    response.status = 200 =>
        /\ DOMAIN response.details = Detectors
        /\ DOMAIN response.summary = Counted \cup {"total_transactions"}
        /\ response.summary["total_transactions"] = Len(df.rows)
        /\ \A d \in Counted : response.summary[d] = Len(response.details[d])

\* the four counts differ from one another and the uncounted tables have rows
C8_Witness ==
    /\ response.status = 200
    /\ response.summary["duplicates"] = 2
    /\ response.summary["unusual_timing"] = 0
    /\ response.summary["round_numbers"] = 3
    /\ response.summary["threshold_flags"] = 0
    /\ Len(response.details["benford"]) = 9
    /\ Len(response.details["fuzzy_duplicates"]) = 1

\* the request cannot be analysed: no record, no row left after the rows with
\* an unparseable date or amount are dropped, or a required field on no row
Unanalyzable ==
    \/ request = <<>>
    \/ DropNa(Frame(request)) = <<>>
    \/ Columns(request) # Cols

\* C9: an unanalyzable request is answered with an error (any error status is
\* taken for the rejection), no detector is run for it and no summary is
\* returned.
C9_RejectedBeforeDetection ==
    (pc = "done" /\ Unanalyzable) =>
        /\ response.status # 200
        /\ response.summary = <<>>
        /\ invoked = {}

\* a detector raised: the handler left through its except clause after a call
DetectorRaised == pc = "done" /\ response.status = 500 /\ invoked # {}

\* C10: when one detector raises, the response still carries a section for
\* every detector: the results of the others and a mark for the failed one.
C10_PartialResults ==
    DetectorRaised => DOMAIN response.details = Detectors

-----------------------------------------------------------------------------
(* The endpoint called with a threshold that is not positive *)

\* ?threshold=0, ?threshold=-13, ?threshold=-10000
NonPositiveArgs == {Arg(0), Arg(0 - 13), Arg(0 - DefaultThreshold)}

InitParameters ==
    /\ request \in UNION {SeqsUpTo(F, MaxRows) : F \in {MixedFamily, AmountFamily}}
    /\ thrArg \in NonPositiveArgs
    /\ pc = "receive"
    /\ df = NoFrame
    /\ res = [d \in Detectors |-> NotRun]
    /\ invoked = {}
    /\ response = NoResponse
    /\ session = NoSession

SpecParameters == InitParameters /\ [][Next]_vars

\* C11: a request whose threshold is zero or negative is rejected before any
\* detector runs: no detector is invoked for it and it is never answered with
\* a summary.
C11_NonPositiveRejected ==
    Threshold <= 0 => (invoked = {} /\ response.status # 200)

-----------------------------------------------------------------------------
(* The dashboard src/scripts/app.py: one run of the script on a CSV file.  *)
(* The file is a sequence of records whose absent fields are empty fields. *)

\* pd.read_csv infers a numeric amount column iff every field is a number or
\* empty; otherwise the fields stay the texts they are.  An empty field is
\* a missing value in either case.
NumericFields(data) ==
    \A i \in 1..Len(data) : data[i].amount.kind \in {"num", "text", "absent"}

ReadAmount(data, c) ==
    IF c.kind = "absent" THEN NaN
    ELSE IF NumericFields(data) THEN Number(c.v)
    ELSE c

\* dates are read as texts
ReadDate(c) == IF c.kind = "absent" THEN NaT ELSE c

read_csv(data) ==
    [cols |-> Cols,
     rows |-> [i \in 1..Len(data) |->
                 [idx    |-> i,
                  date   |-> ReadDate(data[i].date),
                  amount |-> ReadAmount(data, data[i].amount),
                  vendor |-> ToVendor(data[i].vendor)]]]

\* the four metrics of the page
Metrics ==
    [k \in {"duplicates", "unusual_timing", "round_numbers", "threshold_flags"} |->
        Len(res[k].rows)]

\* the sample file's rows and rows with an empty or unreadable field
ScriptFiles ==
    SeqsUpTo(ShapeFamily \cup
             {RawRow(DateText(2025, 12, 6), AmtNum(9500 * Scale), VendorStr(VendorB))},
             MaxRows)

\* st.sidebar.slider("Approval Threshold", min_value=1000, ...)
SliderMin == 1000

\* the slider at its default and at its lowest position
SliderArgs == {NoArg, Arg(SliderMin)}

InitScript ==
    /\ request \in ScriptFiles
    /\ thrArg \in SliderArgs
    /\ pc = "load_data"
    /\ df = NoFrame
    /\ res = [d \in Detectors |-> NotRun]
    /\ invoked = {}
    /\ response = NoResponse
    /\ session = NoSession

\* df = pd.read_csv(file); df['date'] = pd.to_datetime(df['date']).  An
\* exception ends the run of the script: the page shows the error.
ScriptLoad ==
    /\ pc = "load_data"
    /\ LET frame == read_csv(request)
       IN  IF \A i \in 1..Len(frame.rows) : CanParseDate(frame.rows[i].date)
             THEN /\ df' = AssignDates(frame)
                  /\ pc' = "duplicates"
                  /\ UNCHANGED response
             ELSE /\ Except("ValueError")
                  /\ UNCHANGED df
    /\ UNCHANGED <<session, request, thrArg, res, invoked>>

ScriptDuplicates ==
    /\ pc = "duplicates"
    /\ Call("duplicates", detect_duplicate_payments(df), Following["duplicates"])
    /\ UNCHANGED <<session, request, thrArg, df>>

ScriptTiming ==
    /\ pc = "unusual_timing"
    /\ Call("unusual_timing", detect_unusual_timing(df), Following["unusual_timing"])
    /\ df' = AssignDates(df)
    /\ UNCHANGED <<session, request, thrArg>>

ScriptRoundNumbers ==
    /\ pc = "round_numbers"
    /\ Call("round_numbers", detect_round_number_abuse(df), Following["round_numbers"])
    /\ UNCHANGED <<session, request, thrArg, df>>

ScriptThreshold ==
    /\ pc = "threshold_flags"
    /\ Call("threshold_flags", detect_threshold_avoidance(df, Threshold),
            Following["threshold_flags"])
    /\ UNCHANGED <<session, request, thrArg, df>>

ScriptBenford ==
    /\ pc = "benford"
    /\ Call("benford", analyze_benford(df), Following["benford"])
    /\ UNCHANGED <<session, request, thrArg, df>>

ScriptFuzzy ==
    /\ pc = "fuzzy_duplicates"
    /\ Call("fuzzy_duplicates", detect_fuzzy_duplicates(df, DefaultCutoff),
            Following["fuzzy_duplicates"])
    /\ UNCHANGED <<session, request, thrArg, df>>

\* the metrics, the charts and the tables
ScriptRender ==
    /\ pc = "respond"
    /\ response' = [status |-> 200, error |-> "", summary |-> Metrics, details |-> Details]
    /\ pc' = "done"
    /\ UNCHANGED <<session, request, thrArg, df, res, invoked>>

NextScript ==
    \/ ScriptLoad
    \/ ScriptDuplicates
    \/ ScriptTiming
    \/ ScriptRoundNumbers
    \/ ScriptThreshold
    \/ ScriptBenford
    \/ ScriptFuzzy
    \/ ScriptRender

SpecScript == InitScript /\ [][NextScript]_vars

\* a row whose date and amount were both parsed
ParsedRow(r) ==
    /\ ~IsText(r.date) /\ ~r.date.null
    /\ ~IsText(r.amount) /\ ~r.amount.null

\* C12: once a detector has been called, every row of the frame the detectors
\* are given has a parsed date and a parsed numeric amount.
C12_OnlyParsedRows ==
    invoked # {} => \A i \in 1..Len(df.rows) : ParsedRow(df.rows[i])

-----------------------------------------------------------------------------
(* The detectors called on one dataset object that load_transactions       *)
(* returned, as main() of src/api/main.py does.  main() calls four of them *)
(* in the order duplicates, timing, round numbers, threshold; here a       *)
(* caller runs each of the six at most once, in any order.                 *)

THRESHOLD_AMOUNT == 10000

\* load_transactions(file_path): pd.read_csv and nothing else, so the dates
\* are the texts of the file
load_transactions(file) == read_csv(file)

\* the call of one detector with the arguments main() and the dashboards give
Apply(name, frame) ==
    CASE name = "duplicates"       -> detect_duplicate_payments(frame)
      [] name = "unusual_timing"   -> detect_unusual_timing(frame)
      [] name = "round_numbers"    -> detect_round_number_abuse(frame)
      [] name = "threshold_flags"  -> detect_threshold_avoidance(frame, THRESHOLD_AMOUNT)
      [] name = "benford"          -> analyze_benford(frame)
      [] name = "fuzzy_duplicates" -> detect_fuzzy_duplicates(frame, DefaultCutoff)

\* what the call leaves in the caller's frame: detect_unusual_timing assigns
\* the date column once pd.to_datetime has returned; the others assign nothing
After(name, frame) ==
    IF name = "unusual_timing" /\ Apply(name, frame).ok
        THEN AssignDates(frame)
        ELSE frame

\* a Saturday and a Monday row, a row whose date is no date, a row without one
MainRows ==
    {RawRow(DateText(2025, 12, 6), AmtNum(1000 * Scale), VendorStr(VendorA)),
     RawRow(DateText(2025, 12, 1), AmtNum(9500 * Scale), VendorStr(VendorB)),
     RawRow(DateJunk, AmtNum(1000 * Scale), VendorStr(VendorA)),
     RawRow(DateAbsent, AmtNum(1000 * Scale), VendorStr(VendorA))}

InitMain ==
    /\ request \in SeqsUpTo(MainRows, MaxRows)
    /\ thrArg = NoArg
    /\ pc = "load_transactions"
    /\ df = NoFrame
    /\ res = [d \in Detectors |-> NotRun]
    /\ invoked = {}
    /\ response = NoResponse
    /\ session = NoSession

\* df = load_transactions(file_path); if not df.empty: ... else: print(...)
MainLoad ==
    /\ pc = "load_transactions"
    /\ df' = load_transactions(request)
    /\ pc' = IF request = <<>> THEN "done" ELSE "detect"
    /\ UNCHANGED <<session, request, thrArg, res, invoked, response>>

\* one detector is called on df; an exception is not caught and ends the run
MainDetect ==
    /\ pc = "detect"
    /\ \E name \in Detectors \ invoked :
         /\ invoked' = invoked \cup {name}
         /\ res' = [res EXCEPT ![name] = Apply(name, df)]
         /\ df' = After(name, df)
         /\ pc' = IF Apply(name, df).ok THEN "detect" ELSE "done"
    /\ UNCHANGED <<session, request, thrArg, response>>

NextMain ==
    \/ MainLoad
    \/ MainDetect

SpecMain == InitMain /\ [][NextMain]_vars

\* C13: no detector changes the dataset it is given: after every call the
\* frame is, field by field and in the representation of its date column,
\* the frame that was loaded.
C13_DatasetUnchanged ==
    invoked # {} => df = load_transactions(request)

\* C14: in whatever order the detectors have been called on the dataset,
\* each one's result is the result it gives when called alone on the freshly
\* loaded dataset.
C14_OrderIndependent ==
    \A name \in invoked : res[name] = Apply(name, load_transactions(request))

-----------------------------------------------------------------------------
(* The dashboard src/app.py.  Every interaction of the operator runs the   *)
(* widget's callback, if it has one, and then the script from the top; an  *)
(* action is one interaction together with the run of the script it        *)
(* causes.  Here request is what the file uploader holds, pc the screen    *)
(* the last run ended on, and session holds st.session_state together with *)
(* the values of the three mapping select boxes.                           *)

\* a record of a file with the columns date, amount, vendor and payee
FileRow(d, a, v, p) == [date |-> d, amount |-> a, vendor |-> v, payee |-> p]

\* the file uploader holds nothing
NoFile == [name |-> "", rows |-> <<>>]

FileA ==
    [name |-> "a.csv",
     rows |-> <<FileRow(DateText(2025, 12, 6), AmtNum(9500 * Scale),
                        VendorStr(VendorA), VendorStr(AbcCorp)),
                FileRow(DateText(2025, 12, 6), AmtNum(9500 * Scale),
                        VendorStr(VendorA), VendorStr(AbcCorpDot)),
                FileRow(DateText(2025, 12, 1), AmtJunk,
                        VendorStr(VendorB), VendorStr(AbcCorp))>>]

FileB ==
    [name |-> "b.csv",
     rows |-> <<FileRow(DateText(2025, 12, 1), AmtNum(1000 * Scale),
                        VendorStr(VendorB), VendorStr(VendorC)),
                FileRow(DateJunk, AmtNum(5000 * Scale),
                        VendorStr(VendorB), VendorStr(VendorC))>>]

\* a file none of whose rows can be parsed, and a file with a header only
FileBad ==
    [name |-> "bad.csv",
     rows |-> <<FileRow(DateJunk, AmtJunk, VendorStr(VendorA), VendorStr(VendorB))>>]

FileEmpty == [name |-> "empty.csv", rows |-> <<>>]

UploadableFiles == {FileA, FileB, FileBad, FileEmpty}

\* data/sample_transactions.csv
SampleFile ==
    [name |-> "data/sample_transactions.csv",
     rows |-> <<FileRow(DateText(2025, 12, 1), AmtNum(1000 * Scale),
                        VendorStr(VendorA), VendorStr(VendorA)),
                FileRow(DateText(2025, 12, 7), AmtNum(10000 * Scale),
                        VendorStr(VendorA), VendorStr(VendorA))>>]

\* detect_columns: the first column whose name has "date", "amount", and
\* "vendor" or "payee" in it
detect_columns ==
    [date_col |-> "date", amount_col |-> "amount", vendor_col |-> "vendor"]

\* The columns the operator picks in each select box: texts or dates as the
\* date, any column as the amount, texts as the vendor.
DateChoices == {"date", "vendor", "payee"}
AmountChoices == {"date", "amount", "vendor", "payee"}
VendorChoices == {"vendor", "payee"}

InitialSession ==
    [analysis_triggered |-> FALSE,
     use_sample_data    |-> FALSE,
     date_col           |-> detect_columns.date_col,
     amount_col         |-> detect_columns.amount_col,
     vendor_col         |-> detect_columns.vendor_col]

\* the file the script loads: the uploaded one, else the sample if asked for
Loaded(file, s) ==
    IF file # NoFile THEN file
    ELSE IF s.use_sample_data THEN SampleFile
    ELSE NoFile

\* load_and_map_data gets past "if df.empty" and shows the select boxes
BoxesShown(file, s) == Loaded(file, s).rows # <<>>

\* df_mapped: the three chosen columns, renamed and cast with errors='coerce',
\* and the rows with a missing date or amount dropped
load_and_map_data(file, s) ==
    [cols |-> Cols,
     rows |-> DropNa([i \in 1..Len(file.rows) |->
                 [idx    |-> i,
                  date   |-> ToDatetime(file.rows[i][s.date_col]),
                  amount |-> ToNumeric(file.rows[i][s.amount_col]),
                  vendor |-> ToVendor(file.rows[i][s.vendor_col])]])]

\* the six calls under st.spinner, with the slider's threshold
RunDetectors(frame) ==
    [duplicates       |-> detect_duplicate_payments(frame),
     unusual_timing   |-> detect_unusual_timing(frame),
     round_numbers    |-> detect_round_number_abuse(frame),
     threshold_flags  |-> detect_threshold_avoidance(frame, Threshold),
     benford          |-> analyze_benford(frame),
     fuzzy_duplicates |-> detect_fuzzy_duplicates(frame, DefaultCutoff)]

\* the page of results: the four metrics and the tables
ResultsPage(results) ==
    [status  |-> 200,
     error   |-> "",
     summary |-> [k \in {"duplicates", "unusual_timing", "round_numbers",
                         "threshold_flags"} |-> Len(results[k].rows)],
     details |-> [k \in Detectors |-> results[k].rows]]

\* The session state a run of the script leaves: an uploaded file clears
\* the sample flag, and select boxes that the run does not show lose their
\* value and start from the detected columns when they are shown again.
SessionAfter(file, s) ==
    IF BoxesShown(file, [s EXCEPT !.use_sample_data = (file = NoFile) /\ @])
        THEN [s EXCEPT !.use_sample_data = (file = NoFile) /\ @]
        ELSE [s EXCEPT !.use_sample_data = (file = NoFile) /\ @,
                       !.date_col   = detect_columns.date_col,
                       !.amount_col = detect_columns.amount_col,
                       !.vendor_col = detect_columns.vendor_col]

\* df_raw: None, taken for the frame without rows, if nothing is loaded or
\* the CSV is empty
LoadedFrame(file, s) ==
    IF BoxesShown(file, s) THEN load_and_map_data(Loaded(file, s), s) ELSE NoFrame

\* One run of the script with `file` in the uploader and the session state s.
\* The run stops on the welcome screen if there is no row to analyse, on the
\* preview if the analysis has not been triggered, and runs the detectors
\* otherwise.
Script(file, s) ==
    /\ request' = file
    /\ session' = SessionAfter(file, s)
    /\ UNCHANGED thrArg
    /\ df' = LoadedFrame(request', session')
    /\ pc' = IF df'.rows = <<>> THEN "welcome"
             ELSE IF ~session'.analysis_triggered THEN "preview"
             ELSE "analysis"
    /\ IF pc' = "analysis"
         THEN /\ res' = RunDetectors(df')
              /\ invoked' = Detectors
              /\ response' = ResultsPage(res')
         ELSE /\ res' = [d \in Detectors |-> NotRun]
              /\ invoked' = {}
              /\ response' = NoResponse

\* the sidebar is on every screen
Screens == {"welcome", "preview", "analysis"}

InitDashboard ==
    /\ request = NoFile
    /\ thrArg \in SliderArgs
    /\ pc = "welcome"
    /\ df = NoFrame
    /\ res = [d \in Detectors |-> NotRun]
    /\ invoked = {}
    /\ response = NoResponse
    /\ session = InitialSession

\* the operator puts a file into the uploader, replacing what it held
UploadFile ==
    \E f \in UploadableFiles \ {request} : Script(f, session)

\* the operator removes the uploaded file
RemoveFile ==
    /\ request # NoFile
    /\ Script(NoFile, session)

\* "Load Sample Data": use_sample_data = True; st.rerun()
LoadSampleData ==
    /\ pc \in Screens
    /\ Script(request, [session EXCEPT !.use_sample_data = TRUE])

\* a mapping select box is changed: on_change=reset_analysis, then the run
ChangeMapping ==
    /\ BoxesShown(request, session)
    /\ \/ \E c \in DateChoices \ {session.date_col} :
            Script(request, [session EXCEPT !.date_col = c,
                                            !.analysis_triggered = FALSE])
       \/ \E c \in AmountChoices \ {session.amount_col} :
            Script(request, [session EXCEPT !.amount_col = c,
                                            !.analysis_triggered = FALSE])
       \/ \E c \in VendorChoices \ {session.vendor_col} :
            Script(request, [session EXCEPT !.vendor_col = c,
                                            !.analysis_triggered = FALSE])

\* "Run Forensic Analysis", shown on the preview only:
\* analysis_triggered = True; st.rerun()
RunForensicAnalysis ==
    /\ pc = "preview"
    /\ Script(request, [session EXCEPT !.analysis_triggered = TRUE])

NextDashboard ==
    \/ UploadFile
    \/ RemoveFile
    \/ LoadSampleData
    \/ ChangeMapping
    \/ RunForensicAnalysis

SpecDashboard == InitDashboard /\ [][NextDashboard]_vars

\* the dataset in front of the operator and the mapping chosen for it
CurrentData == Loaded(request, session)
CurrentMapping == <<session.date_col, session.amount_col, session.vendor_col>>

\* C15: a step that loads another dataset or changes the mapping ends on a
\* screen on which no detector has run; the detectors run again only after
\* "Run Forensic Analysis" is clicked for what is then loaded.
C15_ConfirmedOnly ==
    [][(CurrentData' # CurrentData \/ CurrentMapping' # CurrentMapping)
          => (pc' # "analysis" /\ invoked' = {})]_vars

=============================================================================
